---- MODULE Spec2Model ----
(***************************************************************************)
(* A model of go_gpt3_cli: main reads a prompt from standard input and     *)
(* generateText sends it to the completions endpoint and returns the text  *)
(* of the first choice.  The three variants of the program (src/main.go    *)
(* and the two in src/unnamed/part_000) share generateText and main line   *)
(* for line; they differ only in the unused fields of the schema.  The     *)
(* model follows src/main.go.                                               *)
(*                                                                         *)
(* Go strings are byte sequences.  A prompt or model name is a sequence of *)
(* characters; the character "xFF" stands for a byte that is not valid     *)
(* UTF-8 and "uFFFD" for the Unicode replacement rune.                     *)
(***************************************************************************)
EXTENDS Integers, Sequences, FiniteSets, TLC

VARIABLES
    env,                \* the process environment: OPENAI_API_KEY
    stdin,              \* the bytes standard input delivers
    pc,                 \* position of the program
    caller,             \* "main", or "direct" for a call of generateText itself
    argPrompt,          \* generateText: the prompt argument as passed
    argModel,           \* generateText: the model argument as passed
    prompt,             \* generateText: parameter prompt
    model,              \* generateText: parameter model (reassigned line 75)
    apiKey,             \* generateText: local apiKey
    requestBody,        \* generateText: local requestBody (<<>> before Marshal)
    req,                \* generateText: local req (<<>> before NewRequest)
    posts,              \* the requests client.Do has put on the network
    transport,          \* outcome of client.Do: "none", "failed", "responded"
    resp,               \* generateText: local resp (<<>> when there is none)
    deferred,           \* generateText: the stack of deferred calls
    bodyClosed,         \* number of calls of resp.Body.Close
    decodes,            \* number of calls of Decoder.Decode on the body
    indexed,            \* number of evaluations of Choices[0]
    completionResponse, \* generateText: local completionResponse
    ret,                \* what generateText returned (<<>> while it has not)
    panicVal,           \* the value of an unrecovered panic ("" when none)
    stdout,             \* what the process has printed on standard output
    stderr,             \* what the runtime has printed on standard error
    exitCode            \* the exit status of the process (-1 while it runs)

vars == <<env, stdin, pc, caller, argPrompt, argModel, prompt, model, apiKey,
          requestBody, req, posts, transport, resp, deferred, bodyClosed,
          decodes, indexed, completionResponse, ret, panicVal, stdout, stderr,
          exitCode>>

----------------------------------------------------------------------------
(* Bounds of the model *)

\* longest line standard input delivers
MaxLine == 2

\* most choices a response body carries
MaxChoices == 2

----------------------------------------------------------------------------
(* Strings *)

RECURSIVE SeqsUpTo(_, _)
SeqsUpTo(S, n) ==
    IF n = 0 THEN {<<>>}
    ELSE LET shorter == SeqsUpTo(S, n - 1)
         IN  shorter \cup {Append(s, c) : s \in {x \in shorter : Len(x) = n - 1}, c \in S}

\* the characters standard input delivers
StdinChars == {"a", " ", "\n", "xFF"}

StdinLines == SeqsUpTo(StdinChars, MaxLine)

\* the prompts and models a direct call of generateText passes
DirectPrompts == {<<>>, <<"h", "i", "<", "\"">>, <<"xFF">>, <<"a", "\n", "\\">>}

DirectModels == {<<>>, <<"g", "p", "t", "-", "x">>, <<"m", "xFF">>}

\* unicode.IsSpace on the characters of the model
IsSpace(c) == c \in {" ", "\n", "\t", "\r"}

RECURSIVE TrimLeft(_)
TrimLeft(s) ==
    IF s # <<>> /\ IsSpace(Head(s)) THEN TrimLeft(Tail(s)) ELSE s

RECURSIVE TrimRight(_)
TrimRight(s) ==
    IF s # <<>> /\ IsSpace(s[Len(s)]) THEN TrimRight(SubSeq(s, 1, Len(s) - 1)) ELSE s

\* strings.TrimSpace
TrimSpace(s) == TrimRight(TrimLeft(s))

RECURSIVE ReadString(_, _)
\* bufio.Reader.ReadString: up to and including the first delim, or all of
\* the input when there is none (the error is dropped by main)
ReadString(in, delim) ==
    IF in = <<>> THEN <<>>
    ELSE IF Head(in) = delim THEN <<delim>>
    ELSE <<Head(in)>> \o ReadString(Tail(in), delim)

----------------------------------------------------------------------------
(* Errors: every error value is a record of the same shape *)

NoErr == [kind |-> "nil", msg |-> "", code |-> 0]

MkErr(k, m) == [kind |-> k, msg |-> m, code |-> 0]

\* error.Error()
ErrorString(e) == e.msg

----------------------------------------------------------------------------
(* encoding/json: Marshal of the request *)

apiURL == "https://api.openai.com/v1/completions"

\* the bytes json.Marshal writes for one character of a string: HTML
\* characters, quotes, backslashes and control characters are escaped, and a
\* byte that is not valid UTF-8 is written as the escape of U+FFFD
EncodeChar(c) ==
    CASE c = "\"" -> <<"\\", "\"">>
      [] c = "\\" -> <<"\\", "\\">>
      [] c = "\n" -> <<"\\", "n">>
      [] c = "\r" -> <<"\\", "r">>
      [] c = "\t" -> <<"\\", "t">>
      [] c = "<" -> <<"\\", "u", "0", "0", "3", "c">>
      [] c = ">" -> <<"\\", "u", "0", "0", "3", "e">>
      [] c = "&" -> <<"\\", "u", "0", "0", "2", "6">>
      [] c = "xFF" -> <<"\\", "u", "f", "f", "f", "d">>
      [] OTHER -> <<c>>

RECURSIVE EncodeChars(_)
EncodeChars(s) ==
    IF s = <<>> THEN <<>> ELSE EncodeChar(Head(s)) \o EncodeChars(Tail(s))

\* a Go string as a JSON string
EncodeString(s) == <<"\"">> \o EncodeChars(s) \o <<"\"">>

\* the CompletionRequest literal of generateText: four fields set, the others
\* at their zero values
CompletionRequest(p, m) ==
    [Prompt |-> p, Model |-> m, MaxTokens |-> 2000, Temperature |-> "0.8",
     TopP |-> "0", FrequencyPenalty |-> "0", PresencePenalty |-> "0",
     BestOf |-> 0, Stop |-> <<>>, Stream |-> FALSE, MaxTokensPerBatch |-> 0,
     N |-> 0, Streaming |-> FALSE, StopSequence |-> "nil", BatchSize |-> 0,
     MaxTries |-> 0, Diversity |-> "0"]

EncodeBool(b) == IF b THEN <<"true">> ELSE <<"false">>

\* json.Marshal of a CompletionRequest: the members in the order of the
\* struct's fields, under the names of their json tags
Marshal(r) ==
    << [key |-> "prompt", val |-> EncodeString(r.Prompt)],
       [key |-> "model", val |-> EncodeString(r.Model)],
       [key |-> "max_tokens", val |-> <<ToString(r.MaxTokens)>>],
       [key |-> "temperature", val |-> <<r.Temperature>>],
       [key |-> "top_p", val |-> <<r.TopP>>],
       [key |-> "frequency_penalty", val |-> <<r.FrequencyPenalty>>],
       [key |-> "presence_penalty", val |-> <<r.PresencePenalty>>],
       [key |-> "best_of", val |-> <<ToString(r.BestOf)>>],
       [key |-> "stop", val |-> EncodeString(r.Stop)],
       [key |-> "stream", val |-> EncodeBool(r.Stream)],
       [key |-> "max_tokens_per_batch", val |-> <<ToString(r.MaxTokensPerBatch)>>],
       [key |-> "n", val |-> <<ToString(r.N)>>],
       [key |-> "streaming", val |-> EncodeBool(r.Streaming)],
       [key |-> "stop_sequence", val |-> <<"null">>],
       [key |-> "batch_size", val |-> <<ToString(r.BatchSize)>>],
       [key |-> "max_tries", val |-> <<ToString(r.MaxTries)>>],
       [key |-> "diversity", val |-> <<r.Diversity>>] >>

\* json.Marshal fails on a float that is not finite, and on nothing else a
\* CompletionRequest can hold
MarshalError(r) ==
    IF r.Temperature \in {"NaN", "+Inf", "-Inf"}
    THEN MkErr("serialization", "json: unsupported value")
    ELSE NoErr

\* http.NewRequest fails on a method that is no token and on a URL that does
\* not parse
NewRequestError(method, url) ==
    IF method \notin {"GET", "POST", "PUT", "DELETE", "HEAD", "PATCH"} \/ url = ""
    THEN MkErr("request", "net/http: invalid method or URL")
    ELSE NoErr

----------------------------------------------------------------------------
(* The response: status codes and bodies *)

\* the statuses a response carries
StatusCodes == {200, 201, 429, 500}

Texts == {"hello", "bye"}

AbsentText == [t |-> "absent", s |-> ""]

\* the member "text" of an element of choices: absent, null, a number, a string
TextVals ==
    {AbsentText, [t |-> "null", s |-> ""], [t |-> "num", s |-> ""]}
        \cup {[t |-> "str", s |-> x] : x \in Texts}

\* an element of choices: null, a string, or an object
Elems ==
    {[t |-> "null", text |-> AbsentText], [t |-> "str", text |-> AbsentText]}
        \cup {[t |-> "obj", text |-> tv] : tv \in TextVals}

\* the member "choices" of the document: absent, null, a string, an array
ChoicesVals ==
    {[t |-> k, a |-> <<>>] : k \in {"absent", "null", "str"}}
        \cup {[t |-> "arr", a |-> s] : s \in SeqsUpTo(Elems, MaxChoices)}

NoChoicesVal == [t |-> "absent", a |-> <<>>]

\* the JSON document of a body: null, an array, a string, or an object
Docs ==
    {[t |-> k, choices |-> NoChoicesVal] : k \in {"null", "arr", "str"}}
        \cup {[t |-> "obj", choices |-> c] : c \in ChoicesVals}

\* a body: a stream that is empty, is no JSON text, breaks off while it is
\* read, or holds a document
Bodies ==
    {[stream |-> k, doc |-> [t |-> "null", choices |-> NoChoicesVal]] :
        k \in {"empty", "syntax", "readerr"}}
        \cup {[stream |-> "ok", doc |-> d] : d \in Docs}

Responses == [StatusCode : StatusCodes, Body : Bodies]

----------------------------------------------------------------------------
(* encoding/json: Decode into a CompletionResponse *)

TypeErr == MkErr("decode", "json: cannot unmarshal value into Go struct field")

\* one element of choices into a Choice: null and an object without a string
\* "text" leave the zero Choice
DecodeElem(e) ==
    [Text |-> IF e.t = "obj" /\ e.text.t = "str" THEN e.text.s ELSE ""]

ElemMismatch(e) == e.t = "str" \/ (e.t = "obj" /\ e.text.t = "num")

\* the value Decode leaves in completionResponse.Choices: nil (the empty
\* slice) unless "choices" is an array
DecodeChoices(c) ==
    IF c.t = "arr" THEN [i \in 1..Len(c.a) |-> DecodeElem(c.a[i])] ELSE <<>>

ChoicesMismatch(c) ==
    c.t = "str" \/ (c.t = "arr" /\ \E i \in 1..Len(c.a) : ElemMismatch(c.a[i]))

\* json.NewDecoder(body).Decode(&completionResponse): the value and the error
Decode(body) ==
    CASE body.stream = "empty" ->
            [v |-> [Choices |-> <<>>], err |-> MkErr("decode", "EOF")]
      [] body.stream = "syntax" ->
            [v |-> [Choices |-> <<>>],
             err |-> MkErr("decode", "invalid character looking for beginning of value")]
      [] body.stream = "readerr" ->
            [v |-> [Choices |-> <<>>], err |-> MkErr("decode", "unexpected EOF")]
      [] body.doc.t = "null" ->
            [v |-> [Choices |-> <<>>], err |-> NoErr]
      [] body.doc.t \in {"arr", "str"} ->
            [v |-> [Choices |-> <<>>], err |-> TypeErr]
      [] OTHER ->
            [v |-> [Choices |-> DecodeChoices(body.doc.choices)],
             err |-> IF ChoicesMismatch(body.doc.choices) THEN TypeErr ELSE NoErr]

----------------------------------------------------------------------------
(* generateText, src/main.go lines 73-121 *)

\* "text-davinci-003"
defaultModel ==
    <<"t", "e", "x", "t", "-", "d", "a", "v", "i", "n", "c", "i", "-", "0", "0", "3">>

\* DefaultModel without the default: an empty model is sent as it is
DefaultModel_Kept(m) == m

\* if model == "" { model = "text-davinci-003" }
DefaultModel(m) == IF m = <<>> THEN defaultModel ELSE m

\* os.Getenv: the value of the variable, "" when it is not set
Getenv(e, name) == IF e[name] # <<>> THEN e[name][1] ELSE ""

\* KeyMissing without the check of the key
KeyMissing_Never(k) == FALSE

\* if apiKey == ""
KeyMissing(k) == k = ""

ConfigError == MkErr("config", "OPENAI_API_KEY environment variable not set")

\* the ways client.Do fails without a response
TransportErrors ==
    {MkErr("network", "Post \"" \o apiURL \o "\": dial tcp: connection refused"),
     MkErr("network", "Post \"" \o apiURL \o "\": context deadline exceeded")}

\* Send with a second attempt after the first
Send_Retry(log, r) == Append(Append(log, r), r)

\* client.Do puts the request on the network
Send(log, r) == Append(log, r)

\* DeferClose with the defer statement left out
DeferClose_Forgotten(d) == d

\* defer resp.Body.Close()
DeferClose(d) == <<"resp.Body.Close">> \o d

\* StatusOK letting every 2xx status pass
StatusOK_Any2xx(code) == code \in 200..299

\* if resp.StatusCode != http.StatusOK: the statuses that pass
StatusOK(code) == code = 200

\* StatusErrorf formatting http.StatusOK in place of the status received
StatusErrorf_WrongCode(code) ==
    [kind |-> "status",
     msg |-> "received non-200 status code: " \o ToString(200),
     code |-> 200]

\* fmt.Errorf("received non-200 status code: %d", resp.StatusCode)
StatusErrorf(code) ==
    [kind |-> "status",
     msg |-> "received non-200 status code: " \o ToString(code),
     code |-> code]

\* DecodeFailed with the error of Decode dropped
DecodeFailed_Ignored(e) == FALSE

\* if err != nil, after Decode
DecodeFailed(e) == e # NoErr

\* FirstChoice taking the last choice
FirstChoice_Last(choices) == choices[Len(choices)]

\* completionResponse.Choices[0]
FirstChoice(choices) == choices[1]

IndexPanic == "runtime error: index out of range [0] with length 0"

\* a return of generateText: the deferred calls run, then the caller goes on
Return(text, e) ==
    /\ ret' = <<[text |-> text, err |-> e]>>
    /\ bodyClosed' = bodyClosed + Len(deferred)
    /\ deferred' = <<>>
    /\ pc' = IF caller = "main" THEN "main_print" ELSE "done"

\* main, lines 124-129: the banner, one line of input, trimmed, and the call
MainReadAndCall ==
    /\ pc = "start"
    /\ \E line \in StdinLines :
        /\ stdin' = line
        /\ stdout' = Append(stdout, "Enter prompt: ")
        /\ argPrompt' = TrimSpace(ReadString(line, "\n"))
        /\ prompt' = TrimSpace(ReadString(line, "\n"))
    /\ argModel' = <<>>
    /\ model' = <<>>
    /\ caller' = "main"
    /\ pc' = "gen_default"
    /\ UNCHANGED <<env, apiKey, requestBody, req, posts, transport, resp,
                   deferred, bodyClosed, decodes, indexed, completionResponse,
                   ret, panicVal, stderr, exitCode>>

\* a call of generateText with a prompt and a model of the caller's choice
DirectCall ==
    /\ pc = "start"
    /\ \E p \in DirectPrompts, m \in DirectModels :
        /\ argPrompt' = p
        /\ prompt' = p
        /\ argModel' = m
        /\ model' = m
    /\ caller' = "direct"
    /\ pc' = "gen_default"
    /\ UNCHANGED <<env, stdin, apiKey, requestBody, req, posts, transport, resp,
                   deferred, bodyClosed, decodes, indexed, completionResponse,
                   ret, panicVal, stdout, stderr, exitCode>>

\* lines 74-76
GenDefaultModel ==
    /\ pc = "gen_default"
    /\ model' = DefaultModel(model)
    /\ pc' = "gen_getenv"
    /\ UNCHANGED <<env, stdin, caller, argPrompt, argModel, prompt, apiKey,
                   requestBody, req, posts, transport, resp, deferred,
                   bodyClosed, decodes, indexed, completionResponse, ret,
                   panicVal, stdout, stderr, exitCode>>

\* lines 78-81
GenGetenv ==
    /\ pc = "gen_getenv"
    /\ apiKey' = Getenv(env, "OPENAI_API_KEY")
    /\ IF KeyMissing(Getenv(env, "OPENAI_API_KEY"))
       THEN Return("", ConfigError)
       ELSE /\ pc' = "gen_marshal"
            /\ UNCHANGED <<ret, bodyClosed, deferred>>
    /\ UNCHANGED <<env, stdin, caller, argPrompt, argModel, prompt, model,
                   requestBody, req, posts, transport, resp, decodes, indexed,
                   completionResponse, panicVal, stdout, stderr, exitCode>>

\* lines 83-92
GenMarshal ==
    /\ pc = "gen_marshal"
    /\ LET r == CompletionRequest(prompt, model)
       IN  IF MarshalError(r) # NoErr
           THEN /\ Return("", MarshalError(r))
                /\ UNCHANGED requestBody
           ELSE /\ requestBody' = <<Marshal(r)>>
                /\ pc' = "gen_newrequest"
                /\ UNCHANGED <<ret, bodyClosed, deferred>>
    /\ UNCHANGED <<env, stdin, caller, argPrompt, argModel, prompt, model,
                   apiKey, req, posts, transport, resp, decodes, indexed,
                   completionResponse, panicVal, stdout, stderr, exitCode>>

\* lines 94-100
GenNewRequest ==
    /\ pc = "gen_newrequest"
    /\ IF NewRequestError("POST", apiURL) # NoErr
       THEN /\ Return("", NewRequestError("POST", apiURL))
            /\ UNCHANGED req
       ELSE /\ req' = <<[method |-> "POST", url |-> apiURL,
                         body |-> requestBody[1],
                         header |-> [ContentType |-> "application/json",
                                     Authorization |-> "Bearer " \o apiKey]]>>
            /\ pc' = "gen_do"
            /\ UNCHANGED <<ret, bodyClosed, deferred>>
    /\ UNCHANGED <<env, stdin, caller, argPrompt, argModel, prompt, model,
                   apiKey, requestBody, posts, transport, resp, decodes,
                   indexed, completionResponse, panicVal, stdout, stderr,
                   exitCode>>

\* lines 102-107: the request goes out; the transport fails, or delivers a
\* response whose body the function defers closing
GenDo ==
    /\ pc = "gen_do"
    /\ posts' = Send(posts, req[1])
    /\ \/ \E e \in TransportErrors :
            /\ transport' = "failed"
            /\ Return("", e)
            /\ UNCHANGED resp
       \/ \E r \in Responses :
            /\ transport' = "responded"
            /\ resp' = <<r>>
            /\ deferred' = DeferClose(deferred)
            /\ pc' = "gen_status"
            /\ UNCHANGED <<ret, bodyClosed>>
    /\ UNCHANGED <<env, stdin, caller, argPrompt, argModel, prompt, model,
                   apiKey, requestBody, req, decodes, indexed,
                   completionResponse, panicVal, stdout, stderr, exitCode>>

\* lines 109-111
GenCheckStatus ==
    /\ pc = "gen_status"
    /\ IF ~StatusOK(resp[1].StatusCode)
       THEN Return("", StatusErrorf(resp[1].StatusCode))
       ELSE /\ pc' = "gen_decode"
            /\ UNCHANGED <<ret, bodyClosed, deferred>>
    /\ UNCHANGED <<env, stdin, caller, argPrompt, argModel, prompt, model,
                   apiKey, requestBody, req, posts, transport, resp, decodes,
                   indexed, completionResponse, panicVal, stdout, stderr,
                   exitCode>>

\* lines 114-118
GenDecode ==
    /\ pc = "gen_decode"
    /\ decodes' = decodes + 1
    /\ completionResponse' = Decode(resp[1].Body).v
    /\ IF DecodeFailed(Decode(resp[1].Body).err)
       THEN Return("", Decode(resp[1].Body).err)
       ELSE /\ pc' = "gen_index"
            /\ UNCHANGED <<ret, bodyClosed, deferred>>
    /\ UNCHANGED <<env, stdin, caller, argPrompt, argModel, prompt, model,
                   apiKey, requestBody, req, posts, transport, resp, indexed,
                   panicVal, stdout, stderr, exitCode>>

\* line 120: the index expression panics on an empty slice; the deferred
\* calls run while the panic unwinds the function
GenReturnFirst ==
    /\ pc = "gen_index"
    /\ indexed' = indexed + 1
    /\ IF Len(completionResponse.Choices) = 0
       THEN /\ panicVal' = IndexPanic
            /\ bodyClosed' = bodyClosed + Len(deferred)
            /\ deferred' = <<>>
            /\ pc' = "panicking"
            /\ UNCHANGED ret
       ELSE /\ Return(FirstChoice(completionResponse.Choices).Text, NoErr)
            /\ UNCHANGED panicVal
    /\ UNCHANGED <<env, stdin, caller, argPrompt, argModel, prompt, model,
                   apiKey, requestBody, req, posts, transport, resp, decodes,
                   completionResponse, stdout, stderr, exitCode>>

\* no function of the program recovers: the runtime reports the panic on
\* standard error and the process exits with status 2
RuntimeCrash ==
    /\ pc = "panicking"
    /\ stderr' = Append(stderr, "panic: " \o panicVal)
    /\ exitCode' = 2
    /\ pc' = "done"
    /\ UNCHANGED <<env, stdin, caller, argPrompt, argModel, prompt, model,
                   apiKey, requestBody, req, posts, transport, resp, deferred,
                   bodyClosed, decodes, indexed, completionResponse, ret,
                   panicVal, stdout>>

\* main, lines 130-135
MainPrint ==
    /\ pc = "main_print"
    /\ IF ret[1].err # NoErr
       THEN stdout' = Append(stdout, ErrorString(ret[1].err))
       ELSE stdout' = Append(stdout, ret[1].text)
    /\ exitCode' = 0
    /\ pc' = "done"
    /\ UNCHANGED <<env, stdin, caller, argPrompt, argModel, prompt, model,
                   apiKey, requestBody, req, posts, transport, resp, deferred,
                   bodyClosed, decodes, indexed, completionResponse, ret,
                   panicVal, stderr>>

Init ==
    /\ env \in [{"OPENAI_API_KEY"} -> {<<>>, <<"">>, <<"sk-test">>}]
    /\ stdin = <<>>
    /\ pc = "start"
    /\ caller = ""
    /\ argPrompt = <<>>
    /\ argModel = <<>>
    /\ prompt = <<>>
    /\ model = <<>>
    /\ apiKey = ""
    /\ requestBody = <<>>
    /\ req = <<>>
    /\ posts = <<>>
    /\ transport = "none"
    /\ resp = <<>>
    /\ deferred = <<>>
    /\ bodyClosed = 0
    /\ decodes = 0
    /\ indexed = 0
    /\ completionResponse = [Choices |-> <<>>]
    /\ ret = <<>>
    /\ panicVal = ""
    /\ stdout = <<>>
    /\ stderr = <<>>
    /\ exitCode = -1

Next ==
    \/ MainReadAndCall
    \/ DirectCall
    \/ GenDefaultModel
    \/ GenGetenv
    \/ GenMarshal
    \/ GenNewRequest
    \/ GenDo
    \/ GenCheckStatus
    \/ GenDecode
    \/ GenReturnFirst
    \/ RuntimeCrash
    \/ MainPrint

Spec == Init /\ [][Next]_vars

----------------------------------------------------------------------------
(* What the properties below read off a state *)

\* generateText has ended: it returned, or a panic left it
GenEnded == pc \in {"main_print", "panicking", "done"}

HasResponse == resp # <<>>

Returned == ret # <<>>

\* the value of the member `key` of a serialized request
Member(payload, key) ==
    LET i == CHOOSE j \in 1..Len(payload) : payload[j].key = key
    IN  payload[i].val

\* the character a \uXXXX escape of a JSON string stands for
HexRune(h) ==
    CASE h = <<"0", "0", "3", "c">> -> "<"
      [] h = <<"0", "0", "3", "e">> -> ">"
      [] h = <<"0", "0", "2", "6">> -> "&"
      [] h = <<"f", "f", "f", "d">> -> "uFFFD"
      [] OTHER -> "?"

\* the character a two-byte escape of a JSON string stands for
EscapedChar(c) ==
    CASE c = "n" -> "\n"
      [] c = "r" -> "\r"
      [] c = "t" -> "\t"
      [] OTHER -> c

RECURSIVE Unescape(_)
Unescape(w) ==
    IF w = <<>> THEN <<>>
    ELSE IF Head(w) = "\\"
         THEN IF w[2] = "u"
              THEN <<HexRune(SubSeq(w, 3, 6))>> \o Unescape(SubSeq(w, 7, Len(w)))
              ELSE <<EscapedChar(w[2])>> \o Unescape(SubSeq(w, 3, Len(w)))
         ELSE <<Head(w)>> \o Unescape(Tail(w))

\* the string a receiver of the payload reads from a JSON string
UnquoteString(w) == Unescape(SubSeq(w, 2, Len(w) - 1))

\* a string with every byte that is not valid UTF-8 replaced by U+FFFD
ToValidUTF8(s) == [i \in 1..Len(s) |-> IF s[i] = "xFF" THEN "uFFFD" ELSE s[i]]

\* the model generateText is to send for the model argument it was given
WantedModel == IF argModel = <<>> THEN defaultModel ELSE argModel

\* a body that parses into the response schema: a document that is null or
\* an object, whose "choices" is absent, null or an array of nulls and
\* objects, whose "text" is absent, null or a string
ElemFits(e) == e.t \in {"null", "obj"} /\ e.text.t # "num"

Parseable(body) ==
    /\ body.stream = "ok"
    /\ body.doc.t \in {"null", "obj"}
    /\ body.doc.choices.t \in {"absent", "null", "arr"}
    /\ \A i \in 1..Len(body.doc.choices.a) : ElemFits(body.doc.choices.a[i])

\* the text a choice of the body carries
TextOf(e) == IF e.t = "obj" /\ e.text.t = "str" THEN e.text.s ELSE ""

Is2xx(code) == code \in 200..299

----------------------------------------------------------------------------
(* C1 *)

\* C1: a 200 response whose body parses to an empty choice sequence makes
\* generateText return a NoChoices error; it does not panic on that input
C1_NoChoicesError ==
    (/\ HasResponse
     /\ GenEnded
     /\ resp[1].StatusCode = 200
     /\ Parseable(resp[1].Body)
     /\ Len(resp[1].Body.doc.choices.a) = 0)
        => /\ panicVal = ""
           /\ Returned
           /\ ret[1].err.kind = "nochoices"

----------------------------------------------------------------------------
(* C2 *)

\* C2: with OPENAI_API_KEY unset or empty, generateText returns the
\* configuration error, and nothing is serialized, built or sent
C2_NoKeyNoNetwork ==
    Getenv(env, "OPENAI_API_KEY") = ""
        => /\ Len(posts) = 0
           /\ transport = "none"
           /\ requestBody = <<>>
           /\ req = <<>>
           /\ pc \notin {"gen_marshal", "gen_newrequest", "gen_do", "gen_status",
                         "gen_decode", "gen_index", "panicking"}
           /\ GenEnded => ret = <<[text |-> "", err |-> ConfigError]>>

C2_Witness ==
    /\ Getenv(env, "OPENAI_API_KEY") = ""
    /\ Returned
    /\ argModel # <<>>
    /\ argPrompt # <<>>

----------------------------------------------------------------------------
(* C3 *)

\* C3: a response whose status is outside 2xx makes generateText return the
\* status error carrying that status, and the body is never decoded
C3_StatusErrorCarriesCode ==
    (HasResponse /\ ~Is2xx(resp[1].StatusCode) /\ pc # "gen_status")
        => /\ GenEnded
           /\ panicVal = ""
           /\ Returned
           /\ ret[1].text = ""
           /\ ret[1].err.kind = "status"
           /\ ret[1].err.code = resp[1].StatusCode
           /\ ErrorString(ret[1].err)
                = "received non-200 status code: " \o ToString(resp[1].StatusCode)
           /\ decodes = 0
           /\ indexed = 0

C3_Witness ==
    /\ HasResponse
    /\ resp[1].StatusCode = 429
    /\ Parseable(resp[1].Body)
    /\ Len(resp[1].Body.doc.choices.a) > 0
    /\ Returned
    /\ ret[1].err.code = 429

----------------------------------------------------------------------------
(* C4 *)

\* C4: a 200 response whose body parses and has a choice makes generateText
\* return the text of the first choice and a nil error, whatever follows it
C4_FirstChoiceReturned ==
    (/\ HasResponse
     /\ GenEnded
     /\ resp[1].StatusCode = 200
     /\ Parseable(resp[1].Body)
     /\ Len(resp[1].Body.doc.choices.a) > 0)
        => /\ panicVal = ""
           /\ ret = <<[text |-> TextOf(resp[1].Body.doc.choices.a[1]),
                       err |-> NoErr]>>

C4_Witness ==
    /\ HasResponse
    /\ resp[1].StatusCode = 200
    /\ Parseable(resp[1].Body)
    /\ Len(resp[1].Body.doc.choices.a) = 2
    /\ TextOf(resp[1].Body.doc.choices.a[1]) = "hello"
    /\ TextOf(resp[1].Body.doc.choices.a[2]) = "bye"
    /\ ret = <<[text |-> "hello", err |-> NoErr]>>

----------------------------------------------------------------------------
(* C5 *)

\* C5: a 200 response whose body does not parse makes generateText return a
\* decode error and no text, and Choices is never indexed
C5_DecodeErrorOnMalformed ==
    (/\ HasResponse
     /\ resp[1].StatusCode = 200
     /\ ~Parseable(resp[1].Body)
     /\ pc \notin {"gen_status", "gen_decode"})
        => /\ GenEnded
           /\ panicVal = ""
           /\ Returned
           /\ ret[1].text = ""
           /\ ret[1].err.kind = "decode"
           /\ decodes = 1
           /\ indexed = 0

C5_Witness ==
    /\ HasResponse
    /\ resp[1].StatusCode = 200
    /\ resp[1].Body.stream = "syntax"
    /\ Returned
    /\ ret[1].err.kind = "decode"

----------------------------------------------------------------------------
(* C6 *)

\* C6 as claimed: the payload's model is the default for model "" and the
\* caller's model otherwise, and its prompt is the caller's prompt, unchanged
C6_FieldsUnchanged ==
    requestBody # <<>>
        => /\ UnquoteString(Member(requestBody[1], "model")) = WantedModel
           /\ UnquoteString(Member(requestBody[1], "prompt")) = argPrompt

\* C6, amended: the payload's model is the default for model "" and the
\* caller's model otherwise, and its prompt is the caller's prompt, each with
\* every byte that is not valid UTF-8 replaced by U+FFFD (so unchanged when
\* the string is valid UTF-8)
C6_FieldsCoercedToUTF8 ==
    requestBody # <<>>
        => /\ UnquoteString(Member(requestBody[1], "model")) = ToValidUTF8(WantedModel)
           /\ UnquoteString(Member(requestBody[1], "prompt")) = ToValidUTF8(argPrompt)
           /\ Member(requestBody[1], "max_tokens") = <<"2000">>
           /\ Member(requestBody[1], "temperature") = <<"0.8">>

C6_Witness ==
    /\ requestBody # <<>>
    /\ argModel = <<>>
    /\ argPrompt = <<"h", "i", "<", "\"">>
    /\ UnquoteString(Member(requestBody[1], "model")) = defaultModel
    /\ UnquoteString(Member(requestBody[1], "prompt")) = argPrompt

----------------------------------------------------------------------------
(* C7 *)

----------------------------------------------------------------------------
(* C8 *)

\* C8: when main has ended, it has printed the prompt banner and then the
\* error description if generateText failed, or the completion text if it
\* succeeded, and nothing else
C8_MainPrintsErrorOrText ==
    (caller = "main" /\ pc = "done")
        => /\ Len(stdout) = 2
           /\ stdout[1] = "Enter prompt: "
           /\ argModel = <<>>
           /\ Returned
           /\ IF ret[1].err = NoErr
              THEN stdout[2] = ret[1].text
              ELSE stdout[2] = ErrorString(ret[1].err)

----------------------------------------------------------------------------
(* C9 *)

\* C9 as claimed: every response with a 2xx status goes on to body parsing
\* and gets no status error
C9_Every2xxIsParsed ==
    (HasResponse /\ Is2xx(resp[1].StatusCode) /\ pc # "gen_status")
        => /\ pc = "gen_decode" \/ decodes = 1
           /\ ~(Returned /\ ret[1].err.kind = "status")

\* C9, amended: generateText returns the status error exactly for the
\* responses whose status is not 200; only status 200 goes on to body parsing
C9_StatusErrorIffNot200 ==
    /\ (Returned /\ ret[1].err.kind = "status")
        => HasResponse /\ resp[1].StatusCode # 200
    /\ (HasResponse /\ pc # "gen_status")
        => IF resp[1].StatusCode = 200
           THEN /\ pc = "gen_decode" \/ decodes = 1
                /\ ~(Returned /\ ret[1].err.kind = "status")
           ELSE /\ decodes = 0
                /\ Returned
                /\ ret[1].err.kind = "status"

C9_Witness ==
    /\ HasResponse
    /\ resp[1].StatusCode = 201
    /\ Returned
    /\ ret[1].err.kind = "status"
    /\ decodes = 0

----------------------------------------------------------------------------
(* C10 *)

\* C10: once client.Do has delivered a response its body is closed exactly
\* once by the time generateText ends, on every way out, the panic included,
\* and not before; without a response nothing is closed
C10_BodyClosedOnce ==
    /\ bodyClosed <= 1
    /\ ~HasResponse => bodyClosed = 0 /\ deferred = <<>>
    /\ (HasResponse /\ ~GenEnded) => bodyClosed = 0
    /\ (HasResponse /\ GenEnded) => bodyClosed = 1 /\ deferred = <<>>

C10_Witness ==
    /\ HasResponse
    /\ panicVal # ""
    /\ bodyClosed = 1
    /\ pc = "done"

====
